---- MODULE Spec2Model ----
(***************************************************************************)
(* State-machine model of the time-budgeted resolution pipeline:           *)
(*   src/search_resolver.py  (cache, provider adapter, scorer, resolver)   *)
(*   src/main.py             (URL normalizer, liveness probe, SIGALRM      *)
(*                            deadline wrapper, orchestrator loop)         *)
(*   src/gpt_filter.py       (classifier wrapper)                          *)
(*                                                                         *)
(* Conventions.                                                            *)
(*  - A Python string is a sequence of tokens (<<"https","://","acme",     *)
(*    ".com">>); the empty string is <<>>.  Python's None is the one-token *)
(*    sequence None below, a non-string value (an int where a string was   *)
(*    expected) is NonStr.                                                 *)
(*  - Time is counted in quarter seconds (Sec(n) = 4n ticks), so that the  *)
(*    default resolver budget 15 * 0.65 = 9.75 s is the integer 39.        *)
(*  - Scores are the binary64 floats score_candidate computes, each kept   *)
(*    as a sign and three limbs of its magnitude in units of 2^-58.        *)
(***************************************************************************)
EXTENDS Integers, Sequences, FiniteSets, TLC

VARIABLES
    cfg,            \* environment configuration read at import / start of run()
    cache,          \* search_resolver._CACHE : name -> URL | "" ; None = no key
    disk,           \* contents of CACHE_PATH
    calls,          \* history: direct calls of SearchResolver.resolve
    pc,             \* position of run() in its per-company loop
    pulled,         \* number of records pulled from scraper.iter_companies
    cur,            \* locals of the current loop iteration
    rows,           \* run(): rows (pending batch of Included rows)
    preview_rows,   \* run(): preview_rows (Skipped / Info records)
    appended,       \* batches handed to SheetWriter.append_rows, in order
    included,       \* history: every row ever appended to rows, in order
    counts,         \* count_total, count_included, count_dead, count_no_site
    last,           \* history: what the last deadline-wrapped stage did
    sigalrm         \* the process's SIGALRM handler and pending alarm

vars == <<cfg, cache, disk, calls, pc, pulled, cur, rows, preview_rows,
          appended, included, counts, last, sigalrm>>

(***************************************************************************)
(* Bounds of the model                                                     *)
(***************************************************************************)
MaxEntities == 2
MaxCalls == 3
SinkExtra == 2
SinkMaxSkips == 1
DeepPath == 15

(***************************************************************************)
(* Values                                                                  *)
(***************************************************************************)
None == <<"<None>">>
NonStr == <<"<int>">>
EMPTY == <<>>
\* an uncaught ValueError in place of a returned value
Raised == <<"<ValueError>">>

Sec(n) == 4 * n
NoAlarm == -1

Min(a, b) == IF a < b THEN a ELSE b
Max(a, b) == IF a > b THEN a ELSE b

Truthy(s) == s # None /\ s # EMPTY

(***************************************************************************)
(* String helpers                                                          *)
(***************************************************************************)
RECURSIVE LStrip(_)
LStrip(s) ==
    IF s # <<>> /\ Head(s) = " " THEN LStrip(Tail(s)) ELSE s

RECURSIVE RStrip(_)
RStrip(s) ==
    IF s # <<>> /\ s[Len(s)] = " " THEN RStrip(SubSeq(s, 1, Len(s) - 1)) ELSE s

\* str.strip()
Strip(s) == RStrip(LStrip(s))

LowerTok(t) ==
    CASE t = "HTTP" -> "http"
      [] t = "HTTPS" -> "https"
      [] t = "MAILTO:" -> "mailto:"
      [] t = "MAILTO" -> "mailto"
      [] t = "Blk" -> "blk"
      [] OTHER -> t

\* str.lower()
Lower(s) == [i \in 1..Len(s) |-> LowerTok(s[i])]

\* needle in s
Contains(s, needle) ==
    \E i \in 0..(Len(s) - Len(needle)) :
        \A j \in 1..Len(needle) : s[i + j] = needle[j]

\* index of the first token of s that is in toks, Len(s)+1 when there is none
FirstIn(s, toks) ==
    IF \E i \in 1..Len(s) : s[i] \in toks
    THEN CHOOSE i \in 1..Len(s) : s[i] \in toks /\ \A j \in 1..(i - 1) : s[j] \notin toks
    ELSE Len(s) + 1

\* s.count("/") : the token "://" holds two of them
CountSlash(s) ==
    Cardinality({i \in 1..Len(s) : s[i] = "/"})
    + 2 * Cardinality({i \in 1..Len(s) : s[i] = "://"})

(***************************************************************************)
(* URL handling: main._normalize_url, main._contains_any                   *)
(***************************************************************************)
RejectedPrefixes == {"mailto:", "tel:", "javascript:", "data:", "about:"}
Delims == {"/", "?", "#"}

HasSchemeSep(s) == \E i \in 1..Len(s) : s[i] = "://"

\* tokens that hold a ":", and the text of such a token before and after it
ColonToks == {"://", ":80", "MAILTO:"} \cup RejectedPrefixes
BeforeColon(t) ==
    CASE t = "mailto:" -> <<"mailto">>
      [] t = "MAILTO:" -> <<"MAILTO">>
      [] t = "tel:" -> <<"tel">>
      [] t = "javascript:" -> <<"javascript">>
      [] t = "data:" -> <<"data">>
      [] t = "about:" -> <<"about">>
      [] OTHER -> <<>>
AfterColon(t) ==
    CASE t = "://" -> <<"/", "/">>
      [] t = ":80" -> <<"80">>
      [] OTHER -> <<>>

\* tokens with a character outside [A-Za-z0-9+.-], and tokens that do not
\* start with a letter
NonSchemeToks == {" ", "/", "?", "#", "[", "]", "user@", "info@", "u="}
NonAlphaStart == NonSchemeToks \cup {".com", ".org", ".co", ".gl", ".gle", ".us", "80"}

\* urlsplit, scheme: the text before the first ":" when it starts with a
\* letter and holds scheme characters only; lower-cased
SplitScheme(s) ==
    LET c == FirstIn(s, ColonToks)
        pre == IF c <= Len(s) THEN SubSeq(s, 1, c - 1) \o BeforeColon(s[c]) ELSE <<>>
    IN  IF pre # <<>> /\ pre[1] \notin NonAlphaStart
           /\ \A i \in 1..Len(pre) : pre[i] \notin NonSchemeToks
        THEN [scheme |-> Lower(pre),
              rest |-> AfterColon(s[c]) \o SubSeq(s, c + 1, Len(s))]
        ELSE [scheme |-> <<>>, rest |-> s]

\* a "://" that comes before the first of / ? # holds that first "/": the
\* token is taken apart into ":", "/", "/" ...
OpenSep(s) ==
    IF FirstIn(s, Delims \cup {"://"}) <= Len(s)
       /\ s[FirstIn(s, Delims \cup {"://"})] = "://"
    THEN SubSeq(s, 1, FirstIn(s, {"://"}) - 1) \o <<":", "/", "/">>
         \o SubSeq(s, FirstIn(s, {"://"}) + 1, Len(s))
    ELSE s

\* ... and the same text is written with the token "://" again
CloseSep(s) ==
    IF \E i \in 1..(Len(s) - 2) : s[i] = ":" /\ s[i + 1] = "/" /\ s[i + 2] = "/"
    THEN SubSeq(s, 1, FirstIn(s, {":"}) - 1) \o <<"://">>
         \o SubSeq(s, FirstIn(s, {":"}) + 3, Len(s))
    ELSE s

\* urlsplit, netloc: what follows a leading "//" up to the first of / ? #
AfterSlashes(rest) ==
    IF Len(rest) >= 2 /\ rest[1] = "/" /\ rest[2] = "/"
    THEN [has |-> TRUE, body |-> OpenSep(SubSeq(rest, 3, Len(rest)))]
    ELSE [has |-> FALSE, body |-> rest]

\* urlsplit: a netloc with "[" or "]" raises ValueError unless the brackets
\* enclose an IPv6 / IPvFuture literal, which no text of these tokens is
BadBrackets(netloc) ==
    \E i \in 1..Len(netloc) : netloc[i] \in {"[", "]"}

\* the parts of a URL once the scheme is split off
UrlParts(scheme, sl) ==
    LET nl == IF sl.has THEN FirstIn(sl.body, Delims) - 1 ELSE 0
        after == SubSeq(sl.body, nl + 1, Len(sl.body))
        fr == FirstIn(after, {"#"})
        beforeFrag == SubSeq(after, 1, fr - 1)
        qm == FirstIn(beforeFrag, {"?"})
    IN  [raises |-> BadBrackets(SubSeq(sl.body, 1, nl)),
         scheme |-> scheme,
         netloc |-> SubSeq(sl.body, 1, nl),
         path |-> SubSeq(beforeFrag, 1, qm - 1),
         query |-> SubSeq(beforeFrag, qm + 1, Len(beforeFrag)),
         fragment |-> SubSeq(after, fr + 1, Len(after))]

\* urllib.parse.urlparse: leading blanks dropped, then scheme (lower-cased),
\* netloc, path, query, fragment
UrlParse(s) ==
    UrlParts(SplitScheme(LStrip(s)).scheme,
             AfterSlashes(SplitScheme(LStrip(s)).rest))

\* urllib.parse.urlunparse
UrlUnparse(p) ==
    p.scheme \o <<"://">> \o CloseSep(p.netloc \o p.path)
    \o (IF p.query # <<>> THEN <<"?">> \o p.query ELSE <<>>)
    \o (IF p.fragment # <<>> THEN <<"#">> \o p.fragment ELSE <<>>)

\* main._normalize_url(url) under ALLOW_HTTP = allowHttp
NormalizeUrl(url0, allowHttp) ==
    IF ~Truthy(url0) THEN None
    ELSE
    LET url == Strip(url0)
        lo == Lower(url)
    IN  IF lo # <<>> /\ lo[1] \in RejectedPrefixes THEN None
        ELSE
        LET parsed == UrlParse(IF HasSchemeSep(url) THEN url
                               ELSE <<"https", "://">> \o url)
        IN  IF parsed.raises THEN Raised
            ELSE IF parsed.scheme \notin {<<"http">>, <<"https">>}
                    \/ parsed.netloc = <<>>
            THEN None
            ELSE UrlUnparse([parsed EXCEPT
                    !.scheme = IF @ = <<"http">> /\ ~allowHttp
                               THEN <<"https">> ELSE @,
                    !.fragment = <<>>])

\* main._contains_any(s, needles): needles are matched in the lower-cased s
ContainsAny(s, needles) ==
    LET lo == Lower(IF s = None THEN <<>> ELSE s)
    IN  \E n \in needles : Contains(lo, n)

(***************************************************************************)
(* Candidate scorer: search_resolver.py                                    *)
(***************************************************************************)
SOCIAL_HOSTS ==
    { <<"linkedin", ".com">>, <<"facebook", ".com">>, <<"instagram", ".com">>,
      <<"x", ".com">>, <<"twitter", ".com">>, <<"youtube", ".com">>,
      <<"crunchbase", ".com">>, <<"bloomberg", ".com">>, <<"zoominfo", ".com">>,
      <<"manta", ".com">>, <<"yelp", ".com">>, <<"glassdoor", ".com">>,
      <<"indeed", ".com">>, <<"angel", ".co">>, <<"wikipedia", ".org">>,
      <<"maps.", "google", ".com">>, <<"google", ".com">>, <<"goo", ".gl">> }

BLACKLIST_SUBSTR ==
    { <<"eventbrite">>, <<"hubspot">>, <<"forms", ".gle">>, <<"zoom", ".us">> }

Suffixes == {".com", ".org", ".co", ".gl", ".gle", ".us"}
UserInfoToks == {"user@", "info@"}
DotEndToks == {"www.", "maps."}

\* a suffix token without its leading "."
Undot(t) ==
    CASE t = ".com" -> "com"
      [] t = ".org" -> "org"
      [] t = ".co" -> "co"
      [] t = ".gl" -> "gl"
      [] t = ".gle" -> "gle"
      [] t = ".us" -> "us"
      [] OTHER -> t

\* the index of the last token of s that is in toks, 0 if there is none
LastIn(s, toks) ==
    IF \E i \in 1..Len(s) : s[i] \in toks
    THEN CHOOSE i \in 1..Len(s) :
            s[i] \in toks /\ \A k \in (i + 1)..Len(s) : s[k] \notin toks
    ELSE 0

\* tldextract's netloc of a URL: a leading "scheme://" is dropped, then
\* everything from the first of / ? #, then the userinfo, then the port
LenientNetloc(url) ==
    LET c == FirstIn(url, {"://"})
        s == IF 1 < c /\ c <= Len(url)
                /\ \A i \in 1..(c - 1) : url[i] \notin NonSchemeToks
             THEN SubSeq(url, c + 1, Len(url)) ELSE url
        n == SubSeq(s, 1, FirstIn(s, Delims \cup {"://"}) - 1)
        h == SubSeq(n, LastIn(n, UserInfoToks) + 1, Len(n))
        k == FirstIn(h, ColonToks)
    IN  SubSeq(h, 1, k - 1) \o (IF k <= Len(h) THEN BeforeColon(h[k]) ELSE <<>>)

\* where the "."-separated label that holds token i of h starts
LabelStart(h, i) ==
    CHOOSE k \in 1..i :
        /\ k = 1 \/ h[k] \in Suffixes \/ h[k - 1] \in DotEndToks
        /\ \A m \in (k + 1)..i : h[m] \notin Suffixes /\ h[m - 1] \notin DotEndToks

\* the label made of tokens from..to of h
Label(h, from, to) ==
    IF to < from THEN <<>>
    ELSE <<Undot(h[from])>> \o SubSeq(h, from + 1, to)

\* tldextract.extract(url), then lines 51-53: "domain.suffix", the domain
\* alone when the host ends in no public suffix, "" without a domain.  The
\* suffix is the host's last label when that label is one of Suffixes.
RegistrableHost(h) ==
    IF h = <<>> THEN <<>>
    ELSE IF h[Len(h)] \in Suffixes
    THEN IF Len(h) = 1 \/ h[Len(h) - 1] \in DotEndToks THEN <<>>
         ELSE Label(h, LabelStart(h, Len(h) - 1), Len(h) - 1) \o <<h[Len(h)]>>
    ELSE IF h[Len(h)] \in DotEndToks THEN <<>>
    ELSE Label(h, LabelStart(h, Len(h)), Len(h))

\* extract_registrable_host(url) when nothing interrupts it
ExtractRegistrableHost(url) == RegistrableHost(LenientNetloc(url))

\* lines 63-70 of penalty_for_url, host: what extract_registrable_host gave
PenaltyOf(u, host) ==
    IF host \in SOCIAL_HOSTS THEN -60
    ELSE IF \E x \in BLACKLIST_SUBSTR : Contains(u, x) THEN -40
    ELSE -((CountSlash(u) - 2) * 4
           + ((IF \E i \in 1..Len(u) : u[i] = "?" THEN 1 ELSE 0)
              + (IF \E i \in 1..Len(u) : u[i] = "#" THEN 1 ELSE 0)) * 5)

\* penalty_for_url(url)
PenaltyForUrl(url) == PenaltyOf(Lower(url), ExtractRegistrableHost(url))

(***************************************************************************)
(* The float arithmetic of score_candidate (IEEE-754 binary64, round to    *)
(* nearest, ties to even).  Every value it computes is a multiple of 2^-58 *)
(* below 2^17 in magnitude; a magnitude x is kept as <<hi, mid, lo>> with  *)
(* x * 2^58 = hi * 2^48 + mid * 2^24 + lo, and a float as [neg, mag].      *)
(***************************************************************************)
Limb == 2^24
FOne == 2^10

\* 0.7 and 0.3 as the floats the literals denote
F07 == <<716, 13421772, 13421760>>
F03 == <<307, 3355443, 3355440>>

RECURSIVE BitLen(_)
BitLen(n) == IF n = 0 THEN 0 ELSE 1 + BitLen(n \div 2)

\* carries (and borrows) between the limbs
FNorm(hi, mid, lo) ==
    <<hi + (mid + lo \div Limb) \div Limb, (mid + lo \div Limb) % Limb, lo % Limb>>

\* a magnitude rounded to 53 significant bits; sticky: the exact value has
\* more below the last bit kept in x
FRound(x, sticky) ==
    LET d == BitLen(x[1]) - 5
        low == x[3] % (2^d)
        half == 2^(d - 1)
        odd == (x[3] \div (2^d)) % 2 = 1
        up == low > half \/ (low = half /\ (sticky \/ odd))
    IN  IF d <= 0 THEN x
        ELSE FNorm(x[1], x[2], x[3] - low + (IF up THEN 2^d ELSE 0))

FInt(n) == <<n * FOne, 0, 0>>
FMul(x, k) == FRound(FNorm(x[1] * k, x[2] * k, x[3] * k), FALSE)
FAdd(x, y) == FRound(FNorm(x[1] + y[1], x[2] + y[2], x[3] + y[3]), FALSE)
FSub(x, y) == FRound(FNorm(x[1] - y[1], x[2] - y[2], x[3] - y[3]), FALSE)

\* n / 12 for an int n >= 0
FDiv12(n) ==
    LET r1 == (n * FOne) % 12
        r2 == (r1 * Limb) % 12
    IN  FRound(<<(n * FOne) \div 12, (r1 * Limb) \div 12, (r2 * Limb) \div 12>>,
               (r2 * Limb) % 12 # 0)

MagLess(x, y) ==
    \/ x[1] < y[1]
    \/ x[1] = y[1] /\ x[2] < y[2]
    \/ x[1] = y[1] /\ x[2] = y[2] /\ x[3] < y[3]

\* the float of an int
FloatOf(n) == [neg |-> n < 0, mag |-> FInt(IF n < 0 THEN -n ELSE n)]

\* x < y and x >= y on floats
FloatLess(x, y) ==
    IF x.neg # y.neg THEN x.neg
    ELSE IF x.neg THEN MagLess(y.mag, x.mag) ELSE MagLess(x.mag, y.mag)
FloatGeq(x, y) == ~FloatLess(x, y)

\* x + p for a float x >= 0 and an int p
FAddInt(x, p) ==
    IF p >= 0 THEN [neg |-> FALSE, mag |-> FAdd(x, FInt(p))]
    ELSE IF MagLess(x, FInt(-p)) THEN [neg |-> TRUE, mag |-> FSub(FInt(-p), x)]
    ELSE [neg |-> FALSE, mag |-> FSub(x, FInt(-p))]

\* lines 78-84: score = 0.0; += 0.7 * sim_host; += 0.3 * sim_title;
\* += 5 when the title holds "official" or "home"; += min(8, sim_snip / 12)
ScoreBase(simHost, simTitle, official, simSnip) ==
    FAdd(FAdd(FAdd(FMul(F07, simHost), FMul(F03, simTitle)),
              IF official THEN FInt(5) ELSE FInt(0)),
         IF simSnip >= 96 THEN FInt(8) ELSE FDiv12(simSnip))

\* score_candidate(...) as a float.  r.simHost, r.simTitle, r.simSnip are the
\* values of rapidfuzz's token_set_ratio (0..100) for the host label, title and
\* snippet; r.official says whether the title holds "official" or "home".
ScoreCandidate(r, url) ==
    FAddInt(ScoreBase(r.simHost, r.simTitle, r.official, r.simSnip),
            PenaltyForUrl(url))

\* score_candidate when a _Timeout raised inside tldextract.extract is caught
\* by extract_registrable_host's "except Exception: return ''": at line 75
\* (place "host": host_core is "", sim_host 0) or at line 62 (place "penalty":
\* host is "", no social-host penalty)
ScoreInterrupted(r, url, place) ==
    IF place = "host"
    THEN FAddInt(ScoreBase(0, r.simTitle, r.official, r.simSnip), PenaltyForUrl(url))
    ELSE FAddInt(ScoreBase(r.simHost, r.simTitle, r.official, r.simSnip),
                 PenaltyOf(Lower(url), <<>>))

\* host_core = host.split(".")[0] if host else ""
HostCore(url) ==
    LET host == ExtractRegistrableHost(url)
    IN  IF host # <<>> /\ host[Len(host)] \in Suffixes
        THEN SubSeq(host, 1, Len(host) - 1) ELSE host

\* token_set_ratio(a, b): 0 when a string is empty, 100 for equal strings;
\* for other pairs the value rapidfuzz gives is the input other (0..100)
TokenSetRatio(a, b, other) ==
    IF a = <<>> \/ b = <<>> THEN 0 ELSE IF a = b THEN 100 ELSE other

\* score_candidate(company_norm, title, url, snippet), where c holds what the
\* title and the snippet contribute and c.simOther the similarity of the
\* name to a host label that differs from it
ScoreFor(name, c, url) ==
    ScoreCandidate([simHost |-> TokenSetRatio(name, HostCore(url), c.simOther),
                    simTitle |-> c.simTitle, simSnip |-> c.simSnip,
                    official |-> c.official], url)

(***************************************************************************)
(* Search provider adapter: SearchResolver._http_json, _google_cse,        *)
(* _serpapi, _search.                                                      *)
(*                                                                         *)
(* One provider call is scripted by the outcomes of its HTTP attempts:     *)
(*   "ok"        2xx, JSON object of the expected shape                    *)
(*   "transport" httpx.TransportError (connect/read timeout, ...)          *)
(*   "status"    non-2xx: raise_for_status raises httpx.HTTPStatusError    *)
(*   "badjson"   2xx whose body is not JSON: r.json() raises ValueError    *)
(*   "badshape"  2xx whose JSON is not an object of the expected shape     *)
(*               (a JSON array, "items": null, an item that is no object)  *)
(* A script shorter than MaxTries that ends in a failure is a call that    *)
(* backoff gave up on because max_time had passed.                         *)
(***************************************************************************)
MaxTries == 3
ResultCap == 10

\* backoff.on_exception(expo, (httpx.HTTPError,), max_tries=3) around _http_json
RECURSIVE HttpJson(_, _)
HttpJson(script, i) ==
    LET o == script[i] IN
    IF o \in {"transport", "status"}
    THEN IF i < MaxTries /\ i < Len(script)
         THEN HttpJson(script, i + 1)
         ELSE [raised |-> TRUE, kind |-> o, requests |-> i]
    ELSE IF o = "badjson"
         THEN [raised |-> TRUE, kind |-> o, requests |-> i]
         ELSE [raised |-> FALSE, kind |-> o, requests |-> i]

\* the body of _google_cse / _serpapi after the try block
ParseItems(kind, results) ==
    IF kind = "badshape"
    THEN [raises |-> TRUE, results |-> <<>>]
    ELSE [raises |-> FALSE,
          results |-> SubSeq(results, 1, Min(ResultCap, Len(results)))]

\* SearchResolver._search(query) when nothing interrupts it
SearchParsed(hj, items) ==
    [raises |-> items.raises, results |-> items.results, requests |-> hj.requests]

\* variant of the adapters without their "except Exception: return []"
SearchOfRaising(hj, results) ==
    IF hj.raised
    THEN [raises |-> TRUE, results |-> <<>>, requests |-> hj.requests]
    ELSE SearchParsed(hj, ParseItems(hj.kind, results))

SearchOf(hj, results) ==
    IF hj.raised
    THEN [raises |-> FALSE, results |-> <<>>, requests |-> hj.requests]
    ELSE SearchParsed(hj, ParseItems(hj.kind, results))

Search(penv) == SearchOf(HttpJson(penv.script, 1), penv.results)

(***************************************************************************)
(* Website resolver: SearchResolver.resolve                                *)
(***************************************************************************)
MIN_RESOLVER_SCORE == 35
InitBestScore == -10000

\* variant of the lookup: "if cached:" in place of "if cached is not None"
CacheHitFalsy(cached) == Truthy(cached)

\* cached = _CACHE.get(name); "if cached is not None"
CacheHit(cached) == cached # None

\* variant of the store: "_CACHE[company_name] = res", without the marker
CacheStoreRaw(res) == res

\* _CACHE[company_name] = res or ""
CacheStore(res) == IF Truthy(res) THEN res ELSE EMPTY

\* return cached or None
CacheValue(cached) == IF Truthy(cached) THEN cached ELSE None

\* queries built by resolve: one, or two with SEARCH_EXTRA_QUERY=1
NumQueries(extraQuery) == IF extraQuery THEN 2 ELSE 1

\* the alarm armed at tick A is still to fire
Pending(st, A) == A # NoAlarm /\ ~st.fired

\* it fires inside a blocking phase that starts at st.t and lasts dur
FiresIn(st, A, dur) == Pending(st, A) /\ st.t <= A /\ A < st.t + dur

\* it fires in the non-blocking code reached at st.t, when the environment's
\* choice for a deadline that expires exactly there (tie) names this place
FiresAt(st, A, tie, place) == Pending(st, A) /\ st.t = A /\ tie = place

\* lines 200-203: "if sc > best_score: best_score, best_url = sc, url";
\* hit: a deadline was swallowed while this candidate was scored
KeepBest(best, sc, url, hit) ==
    IF FloatLess(best.score, sc)
    THEN [best EXCEPT !.score = sc, !.url = url, !.hit = @ \/ hit]
    ELSE [best EXCEPT !.hit = @ \/ hit]

\* the scoring loop over one query's results (lines 194-203).  hit: where a
\* deadline that expires during the loop is delivered: place "host" or
\* "penalty" inside extract_registrable_host while result number at is scored
\* (swallowed there), "none" otherwise
NoHit == [place |-> "none", at |-> 0]

RECURSIVE ScoreLoop(_, _, _, _)
ScoreLoop(best, results, i, hit) ==
    IF i > Len(results) THEN best
    ELSE
    LET r == results[i]
        link == r.link
    IN  IF link = None THEN ScoreLoop(best, results, i + 1, hit)
        ELSE IF link = NonStr THEN [best EXCEPT !.err = TRUE]
        ELSE IF Strip(link) = <<>> THEN ScoreLoop(best, results, i + 1, hit)
        ELSE IF hit.place # "none" /\ hit.at = i
        THEN ScoreLoop(KeepBest(best, ScoreInterrupted(r, Strip(link), hit.place),
                                Strip(link), TRUE),
                       results, i + 1, hit)
        ELSE ScoreLoop(KeepBest(best, ScoreCandidate(r, Strip(link)), Strip(link), FALSE),
                       results, i + 1, hit)

\* variant of the threshold: best_score > min_score
SelectStrict(best, minScore) ==
    IF Truthy(best.url) /\ FloatLess(FloatOf(minScore), best.score)
    THEN best.url ELSE None

\* res = best_url if best_url and best_score >= min_score else None
Select(best, minScore) ==
    IF Truthy(best.url) /\ FloatGeq(best.score, FloatOf(minScore))
    THEN best.url ELSE None

\* one pass of "for q in queries" (lines 192-203): the provider call, whose
\* outcome when nothing interrupts it is call, then the scoring of its results.
\* A _Timeout raised inside the adapter's try block is caught by its
\* "except Exception" and the call returns [].
Scored(st, call, b) ==
    [st EXCEPT !.best = [b EXCEPT !.hit = FALSE],
               !.status = IF b.err THEN "error" ELSE "run",
               !.fired = @ \/ b.hit, !.swallowed = @ \/ b.hit,
               !.queries = @ + 1, !.requests = @ + call.requests]

\* the provider has answered at st.t.  A deadline that expires at that very
\* tick is delivered, by the environment's choice, inside _http_json after
\* the response arrived (tie "adapter": still inside the adapter's try, so
\* it is swallowed and the results are dropped), in the code that follows the
\* try up to the end of the pass (tie "early": _Timeout leaves resolve), or
\* inside extract_registrable_host (ties "host", "penalty")
Answered(st, call, A, tie, at) ==
    IF FiresAt(st, A, tie, "adapter")
    THEN [st EXCEPT !.fired = TRUE, !.swallowed = TRUE,
                    !.queries = @ + 1, !.requests = @ + call.requests]
    ELSE IF FiresAt(st, A, tie, "early")
    THEN [st EXCEPT !.status = "timeout", !.fired = TRUE,
                    !.queries = @ + 1, !.requests = @ + call.requests]
    ELSE IF call.raises
    THEN [st EXCEPT !.status = "error",
                    !.queries = @ + 1, !.requests = @ + call.requests]
    ELSE Scored(st, call,
                ScoreLoop(st.best, call.results, 1,
                          IF FiresAt(st, A, tie, "host") \/ FiresAt(st, A, tie, "penalty")
                          THEN [place |-> tie, at |-> at] ELSE NoHit))

QueryCall(st, dur, call, A, tie, at) ==
    IF FiresIn(st, A, dur)
    THEN [st EXCEPT !.t = A, !.fired = TRUE, !.swallowed = TRUE, !.queries = @ + 1]
    ELSE Answered([st EXCEPT !.t = @ + dur], call, A, tie, at)

RECURSIVE RunQueries(_, _, _, _, _, _)
RunQueries(st, penvs, k, A, tie, at) ==
    IF k > Len(penvs) \/ st.status # "run" THEN st
    ELSE RunQueries(QueryCall(st, penvs[k].dur, Search(penvs[k]), A, tie, at),
                    penvs, k + 1, A, tie, at)

\* CACHE_PATH.write_text(json.dumps(_CACHE)) inside try / except Exception: pass
\* wenv.mode "ok" | "fail" (OSError), wenv.dur, and wenv.torn: what an
\* interrupted write leaves in the file ("old" | "new" | "corrupt").  A
\* deadline that expires as the write is reached can be delivered inside the
\* try (tie "write"), where it is swallowed like one that fires during it.
FileOf(mem) == [ok |-> TRUE, map |-> mem]

WriteDisk(st, mem, file, wenv, A, tie) ==
    IF FiresIn(st, A, wenv.dur) \/ FiresAt(st, A, tie, "write")
    THEN [st |-> [st EXCEPT !.t = A, !.fired = TRUE, !.swallowed = TRUE],
          disk |-> CASE wenv.torn = "old" -> file
                     [] wenv.torn = "new" -> FileOf(mem)
                     [] OTHER -> [ok |-> FALSE, map |-> file.map]]
    ELSE [st |-> [st EXCEPT !.t = @ + wenv.dur],
          disk |-> IF wenv.mode = "fail" THEN file ELSE FileOf(mem)]

\* what a call of resolve leaves: how it ended ("ret" | "timeout" | "error"),
\* the value returned, _CACHE, the cache file, and its bookkeeping
Outcome(st, status, value, mem, file) ==
    [status |-> status, value |-> value, cache |-> mem, disk |-> file,
     queries |-> st.queries, requests |-> st.requests, t |-> st.t,
     fired |-> st.fired \/ status = "timeout", swallowed |-> st.swallowed]

\* lines 209-214: after the write to the file
ResolveReturn(w, res, mem, A, tie) ==
    IF FiresAt(w.st, A, tie, "final")
    THEN Outcome(w.st, "timeout", None, mem, w.disk)
    ELSE Outcome(w.st, "ret", res, mem, w.disk)

\* lines 208-214: _CACHE[company_name] = res or "", then the file
ResolvePersist(st, res, mem, file, env, A) ==
    IF FiresAt(st, A, env.tie, "late")
    THEN Outcome(st, "timeout", None, mem, file)
    ELSE ResolveReturn(WriteDisk(st, mem, file, env.w, A, env.tie),
                       res, mem, A, env.tie)

\* lines 205-208
ResolveSelect(name, st, res, mem, file, env, A) ==
    ResolvePersist(st, res, [mem EXCEPT ![name] = CacheStore(res)], file, env, A)

\* lines 190-214, st: the state after the query loop
ResolveFinish(name, st, mem, file, env, minScore, A) ==
    IF st.status # "run" THEN Outcome(st, st.status, None, mem, file)
    ELSE ResolveSelect(name, st, Select(st.best, minScore), mem, file, env, A)

ResolveStart ==
    [t |-> 0, fired |-> FALSE, swallowed |-> FALSE, status |-> "run",
     queries |-> 0, requests |-> 0,
     best |-> [url |-> None, score |-> FloatOf(InitBestScore), err |-> FALSE,
               hit |-> FALSE]]

\* SearchResolver.resolve(name, min_score) run while an alarm is armed to fire
\* A ticks after the call starts (NoAlarm: none).  env.q: one provider
\* environment per query, env.w: the file write, env.tie: where a deadline
\* that expires between two blocking phases is delivered.
Resolve(name, mem, file, env, extraQuery, minScore, A) ==
    IF ~Truthy(name) THEN Outcome(ResolveStart, "ret", None, mem, file)
    ELSE IF CacheHit(mem[name])
    THEN Outcome(ResolveStart, "ret", CacheValue(mem[name]), mem, file)
    ELSE ResolveFinish(name,
            RunQueries(ResolveStart, SubSeq(env.q, 1, NumQueries(extraQuery)),
                       1, A, env.tie, env.at),
            mem, file, env, minScore, A)

(***************************************************************************)
(* Inputs: names, search results, provider environments                    *)
(***************************************************************************)
NameA == <<"a">>
NameB == <<"b">>
Names == {NameA, NameB}

UGood == <<"https", "://", "acme", ".com", "/", "home">>
UTwin == <<"https", "://", "acme", ".org", "/", "home">>
UHttp == <<"http", "://", "acme", ".com">>
USocial == <<"https", "://", "linkedin", ".com", "/", "acme">>
UWeak == <<"https", "://", "other", ".com">>
UEdge == <<" ", "https", "://", "acme", ".co", " ">>
UBlk == <<"https", "://", "Blk", ".com", "/", "acme">>
UMail == <<"mailto:", "info@", "acme", ".com">>
UBare == <<"acme", ".com", "/", "about", "#", "x">>
UBracket == <<"https", "://", "[", "acme", ".com", "/", "home">>

Result(link, h, t, sn, off) ==
    [link |-> link, simHost |-> h, simTitle |-> t, simSnip |-> sn, official |-> off]

RGood == Result(UGood, 100, 80, 60, TRUE)
RTwin == Result(UTwin, 100, 80, 60, TRUE)
RHttp == Result(UHttp, 100, 50, 0, FALSE)
RSocial == Result(USocial, 0, 100, 100, FALSE)
RWeak == Result(UWeak, 30, 40, 0, FALSE)
REdge == Result(UEdge, 50, 0, 0, FALSE)
RBlk == Result(UBlk, 60, 100, 0, FALSE)
RMail == Result(UMail, 0, 100, 100, TRUE)
RBare == Result(UBare, 100, 100, 0, FALSE)
RNoLink == Result(None, 100, 100, 100, TRUE)
RBlankLink == Result(<<" ">>, 100, 100, 100, TRUE)
RBadLink == Result(NonStr, 0, 0, 0, FALSE)
RBracket == Result(UBracket, 0, 100, 100, TRUE)
\* 0.7 * 46 + 0.3 * 1 + 30 / 12 is 35 in the reals
RRound == Result(UWeak, 46, 1, 30, FALSE)
\* 0.7 * 2 + 0.3 * 96 + 5 + 12 / 12 and 0.3 * 94 + 8 are both 36.2 in the reals
RTieA == Result(UHttp, 2, 96, 12, TRUE)
RTieB == Result(UWeak, 0, 94, 100, FALSE)

ResolverLists ==
    { <<>>, <<RSocial, RGood>>, <<RGood, RTwin>>, <<RTwin, RGood>>,
      <<RWeak>>, <<REdge>>, <<RNoLink, RBlankLink, RSocial>>, <<RBadLink>>,
      <<RRound>>, <<RTieA, RTieB>> }

OkScripts == { <<"ok">>, <<"transport", "ok">>, <<"status", "status", "ok">> }
FailScripts == { <<"transport", "transport", "transport">>,
                 <<"status", "status", "status">>, <<"transport">>, <<"badjson">> }
ShapeScripts == { <<"badshape">> }

\* provider environments: results matter only when the last attempt delivers
ProviderEnvs(okScripts, otherScripts, lists, durs) ==
    { [script |-> sc, results |-> l, dur |-> d] :
        sc \in okScripts, l \in lists, d \in durs }
    \cup { [script |-> sc, results |-> <<>>, dur |-> d] :
             sc \in otherScripts, d \in durs }

WriteOk == [mode |-> "ok", dur |-> 0, torn |-> "old"]
WriteFail == [mode |-> "fail", dur |-> 0, torn |-> "old"]

ResolverEnvs ==
    { [q |-> <<p1, p2>>, w |-> w, tie |-> "none", at |-> 0] :
        p1 \in ProviderEnvs(OkScripts, FailScripts \cup ShapeScripts,
                            ResolverLists, {Sec(1)}),
        p2 \in ProviderEnvs({<<"ok">>}, {<<"badshape">>}, {<<>>, <<RTwin>>}, {Sec(1)}),
        w \in {WriteOk, WriteFail} }

(***************************************************************************)
(* Configuration.  Defaults are those of the os.getenv calls.              *)
(***************************************************************************)
PER_COMPANY_BUDGET_SECS == 15
RESOLVER_BUDGET_PERCENT == 65
TIMEOUT_SECS == 10
FlushThreshold == 50

DefaultCfg ==
    [useSignal |-> TRUE, hasSigalrm |-> TRUE, dropDead |-> TRUE, gptOn |-> TRUE,
     sheetOn |-> TRUE, allowHttp |-> FALSE, extraQuery |-> FALSE,
     minScore |-> MIN_RESOLVER_SCORE, blacklist |-> {<<"blk">>}]

NoCache == [n \in Names |-> None]
EmptyFile == FileOf(NoCache)

\* _CACHE as loaded at import: the file's mapping, {} when it cannot be read
LoadCache(file) == IF file.ok THEN file.map ELSE NoCache

\* history kept with the locals of an iteration: ent (which record of the
\* producer it handles), invoked (the stages it ran), overran (the stages during
\* which the armed deadline fired), cls (what the classifier was given back)
NoCls == [kind |-> "none"]
NoCur == [name |-> <<>>, link |-> None, elapsed |-> 0, ent |-> 0,
          invoked |-> <<>>, overran |-> {}, cls |-> NoCls]
NoLast == [stage |-> "none"]
ZeroCounts == [total |-> 0, included |-> 0, dead |-> 0, no_site |-> 0]

\* signal.getsignal(SIGALRM) at start-up is SIG_DFL and no alarm is pending;
\* nested: _run_with_alarm was entered while an alarm was pending
NoSignal == [handler |-> "SIG_DFL", pending |-> FALSE, nested |-> FALSE]

(***************************************************************************)
(* Specification SpecResolve: a client calling SearchResolver.resolve      *)
(***************************************************************************)
InitFiles ==
    { EmptyFile, [ok |-> FALSE, map |-> NoCache],
      FileOf([NoCache EXCEPT ![NameA] = UGood]),
      FileOf([NoCache EXCEPT ![NameB] = EMPTY]) }

InitResolve ==
    /\ cfg \in {[DefaultCfg EXCEPT !.extraQuery = x] : x \in BOOLEAN}
    /\ disk \in InitFiles
    /\ cache = LoadCache(disk)
    /\ calls = <<>>
    /\ pc = "client"
    /\ pulled = 0
    /\ cur = NoCur
    /\ rows = <<>>
    /\ preview_rows = <<>>
    /\ appended = <<>>
    /\ included = <<>>
    /\ counts = ZeroCounts
    /\ last = NoLast
    /\ sigalrm = NoSignal

CallEffect(name, r) ==
    /\ cache' = r.cache
    /\ disk' = r.disk
    /\ calls' = Append(calls,
           [name |-> name, status |-> r.status, value |-> r.value,
            queries |-> r.queries,
            before |-> IF Truthy(name) THEN cache[name] ELSE None,
            hit |-> Truthy(name) /\ CacheHit(cache[name]),
            stored |-> IF Truthy(name) THEN r.cache[name] ELSE None])

\* one call resolver.resolve(name, min_score) outside any deadline
CallResolve(names, envs) ==
    /\ pc = "client"
    /\ Len(calls) < MaxCalls
    /\ \E name \in names, env \in envs :
         CallEffect(name,
            Resolve(name, cache, disk, env, cfg.extraQuery, cfg.minScore, NoAlarm))
    /\ UNCHANGED <<cfg, pc, pulled, cur, rows, preview_rows, appended, included,
                   counts, last, sigalrm>>

NextResolve == CallResolve(Names \cup {EMPTY}, ResolverEnvs)

SpecResolve == InitResolve /\ [][NextResolve]_vars

(***************************************************************************)
(* Deadline wrapper: main._run_with_alarm                                  *)
(***************************************************************************)
\* int(seconds) for a duration given in ticks, in seconds
IntSecs(ticks) == ticks \div Sec(1)

\* variant of the wrapper: the budget rounded up to whole seconds
ArmedCeil(seconds) == Sec(Max(1, (seconds + Sec(1) - 1) \div Sec(1)))

\* secs = max(1, int(seconds)); signal.alarm(secs): the deadline armed, in ticks
ArmedTicks(seconds) == Sec(Max(1, IntSecs(seconds)))

\* USE_SIGNAL_TIMEOUT and hasattr(signal, "SIGALRM")
HardMode(c) == c.useSignal /\ c.hasSigalrm

\* the alarm a stage runs under
StageAlarm(c, seconds) == IF HardMode(c) THEN ArmedTicks(seconds) ELSE NoAlarm

\* fn(...) has returned or raised at the very tick the alarm expires, and the
\* signal is delivered in the finally block (lines 116-118) before
\* signal.alarm(0) has cancelled it: _sigalrm_handler raises _Timeout there
RacesCancel(r, A, tie) ==
    A # NoAlarm /\ r.status # "timeout" /\ ~r.fired /\ r.t = A /\ tie = "cancel"

\* what _run_with_alarm hands to its caller when fn's own outcome is r
RunWithAlarm(r, A, tie) ==
    IF RacesCancel(r, A, tie) THEN [r EXCEPT !.status = "timeout", !.fired = TRUE]
    ELSE r

\* the signal state _run_with_alarm leaves: the alarm has fired or is
\* cancelled by signal.alarm(0); prev_handler is put back by line 118 unless
\* the _Timeout raised in the finally block skipped that line
AlarmExit(sig, r, A, tie) ==
    IF A = NoAlarm THEN sig
    ELSE [handler |-> IF RacesCancel(r, A, tie) THEN "_sigalrm_handler"
                      ELSE sig.handler,
          pending |-> FALSE,
          nested |-> sig.nested \/ sig.pending]

(***************************************************************************)
(* Liveness probe: main._check_url_live                                    *)
(* env.head, env.get: [kind: "resp" | "transport", code, url, dur];        *)
(* a status of None is written 0.                                          *)
(***************************************************************************)
FallbackCodes == {400, 401, 403, 405, 500}

\* variant of the status test: 2xx only
IsOkCode(c) == 200 <= c /\ c < 300

IsLiveCode(c) == 200 <= c /\ c < 400

CheckUrlLive(url, env, A) ==
    LET st0 == [t |-> 0, fired |-> FALSE]
        timeout(t) == [status |-> "timeout", is_live |-> FALSE, final_url |-> url,
                       code |-> 0, t |-> t, fired |-> TRUE, probes |-> 0]
        ret(l, u, c, t, n) == [status |-> "ret", is_live |-> l, final_url |-> u,
                       code |-> c, t |-> t, fired |-> FALSE, probes |-> n]
        done(r) == IF FiresAt([t |-> r.t, fired |-> FALSE], A, env.tie, "final")
                   THEN timeout(r.t) ELSE r
        \* lines 82-85: a deadline delivered while get.close() runs is caught
        \* by "except Exception: pass" and the probe's result is returned
        closed(r) == IF FiresAt([t |-> r.t, fired |-> FALSE], A, env.tie, "close")
                     THEN [r EXCEPT !.fired = TRUE] ELSE done(r)
        h == env.head
        g == env.get
    IN
    IF FiresIn(st0, A, h.dur) THEN timeout(A)
    ELSE IF h.kind = "transport" THEN done(ret(FALSE, url, 0, h.dur, 1))
    ELSE IF IsLiveCode(h.code) THEN done(ret(TRUE, h.url, h.code, h.dur, 1))
    ELSE IF h.code \in FallbackCodes
    THEN LET st1 == [t |-> h.dur, fired |-> FALSE] IN
         IF FiresAt(st1, A, env.tie, "early") \/ FiresIn(st1, A, g.dur)
         THEN timeout(A)
         ELSE IF g.kind = "transport"
         THEN done(ret(FALSE, url, 0, h.dur + g.dur, 2))
         ELSE IF IsLiveCode(g.code)
         THEN closed(ret(TRUE, g.url, g.code, h.dur + g.dur, 2))
         ELSE closed(ret(FALSE, h.url, h.code, h.dur + g.dur, 2))
    ELSE done(ret(FALSE, h.url, h.code, h.dur, 1))

(***************************************************************************)
(* Classifier: GPTFilter.decide                                            *)
(* env.kind: "raise" (the API call raises), "notjson" (content is no JSON),*)
(* "notdict" (JSON that is no object), "json".  For "json": env.include is *)
(* "true" | "false" | "missing" | "nonbool"; env.industry is a string,     *)
(* None (missing) or NonStr.                                               *)
(***************************************************************************)
Unknown == <<"Unknown">>
TBD == <<"TBD">>

DefaultDecision == [include |-> "false", industry_short |-> Unknown]

\* variant of the defaulting: anything but an explicit false counts as true
DecideIncludeLax(inc) == IF inc = "false" THEN "false" ELSE "true"

\* if not isinstance(data.get("include"), bool): data["include"] = False
DecideInclude(inc) == IF inc \in {"true", "false"} THEN inc ELSE "false"

\* if not isinstance(tag, str) or not tag.strip(): data["industry_short"] = "Unknown"
DecideIndustry(tag) ==
    IF tag = None \/ tag = NonStr \/ Strip(tag) = <<>> THEN Unknown ELSE tag

Decide(env) ==
    IF env.kind # "json" THEN DefaultDecision
    ELSE [include |-> DecideInclude(env.include),
          industry_short |-> DecideIndustry(env.industry)]

(***************************************************************************)
(* Orchestrator: main.run, one action per stage of the per-company loop    *)
(***************************************************************************)
Budget == Sec(PER_COMPANY_BUDGET_SECS)

\* search_budget = max(1.0, PER_COMPANY_BUDGET_SECS * RESOLVER_BUDGET_FRACTION)
SearchBudget == Max(Sec(1), (Budget * RESOLVER_BUDGET_PERCENT) \div 100)

\* remaining = PER_COMPANY_BUDGET_SECS - (time.monotonic() - start_ts)
Remaining(elapsed) == Budget - elapsed

\* variant: the liveness timeout whatever has been spent
LiveBudgetFresh(elapsed) == Max(Sec(1), Sec(TIMEOUT_SECS))

\* live_budget = max(1.0, min(remaining, TIMEOUT_SECS))
LiveBudget(elapsed) == Max(Sec(1), Min(Remaining(elapsed), Sec(TIMEOUT_SECS)))

\* a preview_rows tuple (name, industry, link, note); ent is the history tag
\* of the loop iteration that wrote it
Preview(name, industry, link, text, n, ent) ==
    [name |-> name, industry |-> industry, link |-> link,
     note |-> <<text, n>>, ent |-> ent]

Row(name, industry, link, ent) ==
    [name |-> name, industry |-> industry, link |-> link, ent |-> ent]

SkipWith(rec, ns) ==
    [skip |-> TRUE, crash |-> FALSE, rec |-> rec, link |-> None, no_site |-> ns]

\* an exception that nothing in run() catches ends the run
Crash == [skip |-> FALSE, crash |-> TRUE, rec |-> None, link |-> None, no_site |-> 0]

\* lines 201-219: website is truthy, link = _normalize_url(website)
PostNormalize(c, name, website, link, elapsed, ent) ==
    IF link = Raised THEN Crash
    ELSE IF link = None
    THEN SkipWith(Preview(name, Unknown, website, "SKIP: non-http(s)", 0, ent), 0)
    ELSE IF ContainsAny(link, c.blacklist)
    THEN SkipWith(Preview(name, Unknown, link, "SKIP: blacklist domain", 0, ent), 0)
    ELSE IF elapsed > Budget /\ ~c.useSignal
    THEN SkipWith(Preview(name, Unknown, link, "Timed out during search",
                          PER_COMPANY_BUDGET_SECS, ent), 0)
    ELSE IF Remaining(elapsed) <= 0 /\ ~c.useSignal
    THEN SkipWith(Preview(name, Unknown, link, "Timed out before live check", 0, ent), 0)
    ELSE [skip |-> FALSE, crash |-> FALSE, rec |-> None, link |-> link, no_site |-> 0]

\* lines 196-219: website is what the try block left (None after an exception)
PostWebsite(c, name, website, elapsed, ent) ==
    IF ~Truthy(website)
    THEN SkipWith(Preview(name, Unknown, <<>>, "No site found via search", 0, ent), 1)
    ELSE PostNormalize(c, name, website, NormalizeUrl(website, c.allowHttp),
                       elapsed, ent)

\* lines 190-219: what run() does with the outcome r of the resolution stage
PostResolve(c, name, r, ent) ==
    IF r.status = "timeout"
    THEN SkipWith(Preview(name, Unknown, <<>>, "Timed out during search",
                          IntSecs(SearchBudget), ent), 0)
    ELSE PostWebsite(c, name, IF r.status = "ret" THEN r.value ELSE None, r.t, ent)

\* lines 229-239: what run() does with the outcome r of the liveness stage
PostLive(c, name, link, r, liveBudget, ent) ==
    IF r.status = "timeout"
    THEN [recs |-> <<Preview(name, Unknown, link, "Timed out during live check",
                             IntSecs(liveBudget), ent)>>,
          next |-> "loop", link |-> link, dead |-> 0]
    ELSE IF ~r.is_live
    THEN [recs |-> <<Preview(name, Unknown, link, "DEAD link", r.code, ent)>>,
          next |-> IF c.dropDead THEN "loop" ELSE "classify",
          link |-> link, dead |-> IF c.dropDead THEN 1 ELSE 0]
    ELSE [recs |-> <<>>, next |-> "classify", link |-> r.final_url, dead |-> 0]

\* lines 242-251: include and industry for the current company
FromDecision(d) ==
    [include |-> d.include = "true",
     industry |-> Strip(IF Truthy(d.industry_short) THEN d.industry_short
                        ELSE Unknown)]

Classify(c, env) ==
    IF c.gptOn THEN FromDecision(Decide(env))
    ELSE [include |-> TRUE, industry |-> TBD]

\* variant of the flush test: "len(rows) > 50"
ShouldFlushLate(c, pending) == c.sheetOn /\ Len(pending) > FlushThreshold

\* if sheet and len(rows) >= 50
ShouldFlush(c, pending) == c.sheetOn /\ Len(pending) >= FlushThreshold

\* if sheet and rows (after the loop)
ShouldFlushAtEnd(c, pending) == c.sheetOn /\ pending # <<>>

\* history of the last deadline-wrapped stage of the current iteration:
\* the budget requested, the deadline armed, whether the alarm fired, how the
\* stage ended, and how long it takes and how it ends when left alone
Last(stage, ent, hard, requested, armed, fired, status, natural, natStatus, same) ==
    [stage |-> stage, ent |-> ent, hard |-> hard, requested |-> requested,
     armed |-> armed,
     fired |-> fired, status |-> status, natural |-> natural,
     natStatus |-> natStatus, same |-> same]

NewCur(name, ent) == [NoCur EXCEPT !.name = name, !.ent = ent]

\* "for company in scraper.iter_companies(...)": the producer yields one more
\* record; lines 169-173
Pull(raws, maxN) ==
    /\ pc = "loop"
    /\ pulled < maxN
    /\ \E raw \in raws :
         LET name == Strip(IF Truthy(raw) THEN raw ELSE <<>>) IN
         /\ pulled' = pulled + 1
         /\ IF name = <<>>
            THEN UNCHANGED <<pc, cur, counts, last>>
            ELSE /\ pc' = "resolve"
                 /\ cur' = NewCur(name, pulled + 1)
                 /\ last' = NoLast
                 /\ counts' = [counts EXCEPT !.total = @ + 1]
    /\ UNCHANGED <<cfg, cache, disk, calls, rows, preview_rows, appended,
                   included, sigalrm>>

Overran(stages, stage, r) == IF r.fired THEN stages \cup {stage} ELSE stages

\* the effect of stage 1 with outcome r (nat: the same call left alone)
ResolveEffect(A, r, nat, post) ==
    /\ cache' = r.cache
    /\ disk' = r.disk
    /\ last' = Last("resolve", cur.ent, HardMode(cfg), SearchBudget, A, r.fired,
                    r.status, nat.t, nat.status,
                    r.status = nat.status /\ r.value = nat.value)
    /\ counts' = [counts EXCEPT !.no_site = @ + post.no_site]
    /\ IF post.crash
       THEN /\ preview_rows' = preview_rows
            /\ pc' = "crashed"
            /\ cur' = [cur EXCEPT !.elapsed = r.t, !.invoked = Append(@, "resolve"),
                                  !.overran = Overran(@, "resolve", r)]
       ELSE IF post.skip
       THEN /\ preview_rows' = Append(preview_rows, post.rec)
            /\ pc' = "loop"
            /\ cur' = [cur EXCEPT !.elapsed = r.t, !.invoked = Append(@, "resolve"),
                                  !.overran = Overran(@, "resolve", r)]
       ELSE /\ preview_rows' = preview_rows
            /\ pc' = "live"
            /\ cur' = [cur EXCEPT !.link = post.link, !.elapsed = r.t,
                                  !.invoked = Append(@, "resolve"),
                                  !.overran = Overran(@, "resolve", r)]

ResolveOutcome(env, A, r) ==
    ResolveEffect(A, r,
        Resolve(cur.name, cache, disk, env, cfg.extraQuery, cfg.minScore, NoAlarm),
        PostResolve(cfg, cur.name, r, cur.ent))

\* stage 1, lines 175-219
ResolveStage(envs) ==
    /\ pc = "resolve"
    /\ \E env \in envs :
         /\ ResolveOutcome(env, StageAlarm(cfg, SearchBudget),
               RunWithAlarm(
                  Resolve(cur.name, cache, disk, env, cfg.extraQuery, cfg.minScore,
                          StageAlarm(cfg, SearchBudget)),
                  StageAlarm(cfg, SearchBudget), env.tie))
         /\ sigalrm' = AlarmExit(sigalrm,
               Resolve(cur.name, cache, disk, env, cfg.extraQuery, cfg.minScore,
                       StageAlarm(cfg, SearchBudget)),
               StageAlarm(cfg, SearchBudget), env.tie)
    /\ UNCHANGED <<cfg, calls, pulled, rows, appended, included>>

\* the effect of stage 2 with outcome r (nat: the same probe left alone)
LiveEffect(lb, A, r, nat, post) ==
    /\ last' = Last("live", cur.ent, HardMode(cfg), lb, A, r.fired,
                    r.status, nat.t, nat.status,
                    r.status = nat.status /\ r.final_url = nat.final_url
                      /\ r.is_live = nat.is_live /\ r.code = nat.code)
    /\ preview_rows' = preview_rows \o post.recs
    /\ counts' = [counts EXCEPT !.dead = @ + post.dead]
    /\ pc' = post.next
    /\ cur' = [cur EXCEPT !.link = post.link, !.elapsed = @ + r.t,
                          !.invoked = Append(@, "live"),
                          !.overran = Overran(@, "live", r)]

LiveOutcome(env, lb, A, r) ==
    LiveEffect(lb, A, r, CheckUrlLive(cur.link, env, NoAlarm),
               PostLive(cfg, cur.name, cur.link, r, lb, cur.ent))

\* stage 2, lines 215-239
LiveStage(envs) ==
    /\ pc = "live"
    /\ \E env \in envs :
         /\ LiveOutcome(env, LiveBudget(cur.elapsed),
               StageAlarm(cfg, LiveBudget(cur.elapsed)),
               RunWithAlarm(
                  CheckUrlLive(cur.link, env, StageAlarm(cfg, LiveBudget(cur.elapsed))),
                  StageAlarm(cfg, LiveBudget(cur.elapsed)), env.tie))
         /\ sigalrm' = AlarmExit(sigalrm,
               CheckUrlLive(cur.link, env, StageAlarm(cfg, LiveBudget(cur.elapsed))),
               StageAlarm(cfg, LiveBudget(cur.elapsed)), env.tie)
    /\ UNCHANGED <<cfg, cache, disk, calls, pulled, rows, appended, included>>

\* lines 253-265 for the decision d; pending is rows with the new row
ClassifyEffect(env, d, row, pending, appendOk) ==
    /\ cur' = IF cfg.gptOn
              THEN [cur EXCEPT !.invoked = Append(@, "classify"),
                               !.cls = [kind |-> "called", env |-> env,
                                        decision |-> Decide(env)]]
              ELSE cur
    /\ IF ~d.include
       THEN /\ preview_rows' = Append(preview_rows,
                   Preview(cur.name, d.industry, cur.link,
                           "Filtered out by GPT", 0, cur.ent))
            /\ pc' = "loop"
            /\ UNCHANGED <<rows, appended, included, counts>>
       ELSE /\ included' = Append(included, row)
            /\ counts' = [counts EXCEPT !.included = @ + 1]
            /\ preview_rows' = preview_rows
            /\ IF ShouldFlush(cfg, pending)
               THEN IF appendOk
                    THEN /\ appended' = Append(appended, pending)
                         /\ rows' = <<>>
                         /\ pc' = "loop"
                    ELSE /\ appended' = appended
                         /\ rows' = pending
                         /\ pc' = "aborted"
               ELSE /\ appended' = appended
                    /\ rows' = pending
                    /\ pc' = "loop"

ClassifyOutcome(env, d, appendOk) ==
    ClassifyEffect(env, d, Row(cur.name, d.industry, cur.link, cur.ent),
                   Append(rows, Row(cur.name, d.industry, cur.link, cur.ent)),
                   appendOk)

\* stage 3 and the row append, lines 241-265.  appendOk: whether
\* sheet.append_rows returns (TRUE) or raises (FALSE)
ClassifyStage(envs, sinks) ==
    /\ pc = "classify"
    /\ \E env \in envs, appendOk \in sinks :
         ClassifyOutcome(env, Classify(cfg, env), appendOk)
    /\ UNCHANGED <<cfg, cache, disk, calls, pulled, last, sigalrm>>

\* the producer is exhausted: lines 267-268 and the summary
EndRun(sinks) ==
    /\ pc = "loop"
    /\ \E appendOk \in sinks :
         IF ShouldFlushAtEnd(cfg, rows)
         THEN IF appendOk
              THEN appended' = Append(appended, rows) /\ pc' = "done"
              ELSE appended' = appended /\ pc' = "aborted"
         ELSE appended' = appended /\ pc' = "done"
    /\ UNCHANGED <<cfg, cache, disk, calls, pulled, cur, rows, preview_rows,
                   included, counts, last, sigalrm>>

(***************************************************************************)
(* Specification Spec: one run of main.run                                 *)
(***************************************************************************)
RawNames == { None, <<" ">>, <<" ", "a", " ">> }

HalfSec == Sec(1) \div 2

WriteSlow == [mode |-> "ok", dur |-> Sec(9), torn |-> "corrupt"]
\* where a deadline that expires at a tick at which resolve is not blocked is
\* delivered: not before signal.alarm(0) ("none"), inside the adapter's try
\* ("adapter"), after it or between two queries ("early"), inside
\* extract_registrable_host while result number at is scored ("host",
\* "penalty"), before the cache write ("late"), inside its try ("write"),
\* after it ("final"), or in _run_with_alarm's finally block ("cancel")
Ties == {"none", "adapter", "early", "late", "write", "final", "cancel"}
HitTies == {"host", "penalty"}
Deliveries ==
    { [place |-> tie, at |-> 0] : tie \in Ties }
    \cup { [place |-> tie, at |-> i] : tie \in HitTies, i \in 1..2 }

RunLists == { <<>>, <<RSocial, RGood>>, <<RBlk>>, <<RMail>>, <<RBracket>> }
RunDurs == { Sec(1), Sec(9), Sec(9) + HalfSec, Sec(12), Sec(16) }

\* the place of delivery is a choice only when the provider answers at the
\* tick the search alarm expires
RunResolveEnvs ==
    { e \in
        { [q |-> <<p, p>>, w |-> w, tie |-> tie.place, at |-> tie.at] :
            p \in ProviderEnvs({<<"ok">>},
                               {<<"status", "status", "status">>, <<"badshape">>},
                               RunLists, RunDurs),
            w \in {WriteOk, WriteSlow}, tie \in Deliveries } :
        e.tie = "none" \/ e.q[1].dur = ArmedTicks(SearchBudget) }

URedirect == <<"https", "://", "www.", "acme", ".com", "/">>

Probe(kind, code, url, dur) == [kind |-> kind, code |-> code, url |-> url, dur |-> dur]

RunLiveEnvs ==
    { [head |-> h, get |-> g, tie |-> tie] :
        h \in { Probe("resp", 200, URedirect, d) : d \in {HalfSec, Sec(5), Sec(11)} }
              \cup { Probe("resp", 404, URedirect, HalfSec),
                     Probe("resp", 403, URedirect, HalfSec),
                     Probe("resp", 200, UBlk, HalfSec),
                     Probe("resp", 200, UHttp, HalfSec),
                     Probe("transport", 0, <<>>, HalfSec) },
        g \in { Probe("resp", 200, URedirect, HalfSec),
                Probe("resp", 403, URedirect, HalfSec),
                Probe("resp", 200, UGood, Sec(9) + HalfSec),
                Probe("transport", 0, <<>>, Sec(11)) },
        tie \in {"none", "close", "final", "cancel"} }

Tag == <<" ", "hvac">>

RunClassEnvs ==
    { [kind |-> k, include |-> "missing", industry |-> None] :
        k \in {"raise", "notjson", "notdict"} }
    \cup { [kind |-> "json", include |-> i, industry |-> t] :
             i \in {"true", "false", "missing", "nonbool"},
             t \in {Tag, None, <<" ">>, NonStr} }

AllConfigs ==
    { [DefaultCfg EXCEPT !.useSignal = u, !.hasSigalrm = h, !.dropDead = d, !.gptOn = g] :
        u \in BOOLEAN, h \in BOOLEAN, d \in BOOLEAN, g \in BOOLEAN }

\* without USE_SIGNAL_TIMEOUT the host's SIGALRM is never looked at
RunConfigs == { c \in AllConfigs : c.useSignal \/ c.hasSigalrm }

Init ==
    /\ cfg \in RunConfigs
    /\ disk = EmptyFile
    /\ cache = LoadCache(disk)
    /\ calls = <<>>
    /\ pc = "loop"
    /\ pulled = 0
    /\ cur = NoCur
    /\ rows = <<>>
    /\ preview_rows = <<>>
    /\ appended = <<>>
    /\ included = <<>>
    /\ counts = ZeroCounts
    /\ last = NoLast
    /\ sigalrm = NoSignal

Next ==
    \/ Pull(RawNames, MaxEntities)
    \/ ResolveStage(RunResolveEnvs)
    \/ LiveStage(RunLiveEnvs)
    \/ ClassifyStage(RunClassEnvs, BOOLEAN)
    \/ EndRun(BOOLEAN)

Spec == Init /\ [][Next]_vars

(***************************************************************************)
(* Specification SpecSink: a run with the sheet enabled whose appends all  *)
(* succeed, long enough for the batch threshold to be reached              *)
(***************************************************************************)
SinkResolveEnvs ==
    { [q |-> <<p, p>>, w |-> WriteOk, tie |-> "none", at |-> 0] :
        p \in ProviderEnvs({<<"ok">>}, {}, {<<RSocial, RGood>>}, {Sec(1)}) }

SinkLiveEnvs ==
    { [head |-> Probe("resp", 200, URedirect, HalfSec),
       get |-> Probe("resp", 200, URedirect, HalfSec), tie |-> "none"] }

SinkClassEnvs(includes) ==
    { [kind |-> "json", include |-> i, industry |-> Tag] : i \in includes }

InitSink == Init /\ cfg = DefaultCfg

NextSink ==
    \/ Pull({<<" ", "a", " ">>}, FlushThreshold + SinkExtra)
    \/ ResolveStage(SinkResolveEnvs)
    \/ LiveStage(SinkLiveEnvs)
    \/ ClassifyStage(SinkClassEnvs(IF Len(preview_rows) < SinkMaxSkips
                                   THEN {"true", "false"} ELSE {"true"}),
                     {TRUE})
    \/ EndRun({TRUE})

SpecSink == InitSink /\ [][NextSink]_vars

(***************************************************************************)
(* Specification SpecPure: one application of a pure function of the       *)
(* pipeline.  The initial state holds the argument in last, the action     *)
(* that applies the function replaces it by the argument and the result.   *)
(***************************************************************************)
UrlLeads == { <<>>, <<" ">> }
UrlSchemes ==
    { <<>>, <<"http", "://">>, <<"https", "://">>, <<"HTTP", "://">>,
      <<"ftp", "://">>, <<"mailto:">>, <<"MAILTO:">>, <<"tel:">>,
      <<"javascript:">>, <<"data:">>, <<"about:">> }
UrlNetlocs ==
    { <<>>, <<"acme", ".com">>, <<"acme", ".com", ":80">>, <<":80">>,
      <<"user@">>, <<"[", "acme", ".com">>, <<"[", "acme", ".com", "]">>,
      <<"acme", "://", "x">> }
UrlPaths == { <<>>, <<"/", "about">>, <<"/", "about", " ">> }
UrlQueries == { <<>>, <<"?", "q">>, <<"?", "u=", "http", "://", "x">> }
UrlFragments == { <<>>, <<"#">>, <<"#", "x">> }

UrlInputs ==
    { None, EMPTY }
    \cup { l \o sc \o n \o pa \o q \o f :
             l \in UrlLeads, sc \in UrlSchemes, n \in UrlNetlocs,
             pa \in UrlPaths, q \in UrlQueries, f \in UrlFragments }

\* an argument waiting for function fn
Arg(fn, in) == [stage |-> "arg", fn |-> fn, in |-> in]

\* a path of n segments
Deep(n) == [i \in 1..(2 * n) |-> IF i % 2 = 1 THEN "/" ELSE "p"]

ScoreNames == { <<"acme">>, <<"indeed">> }
ScoreSuffixes == { <<".org">>, <<".co">> }
ScoreSocial == { <<"linkedin", ".com">>, <<"indeed", ".com">>,
                 <<"maps.", "google", ".com">> }
ScoreTails ==
    { <<>>, <<"/", "home">>, <<"/", "home", "?", "q">>, <<"/", "home", "#", "x">>,
      Deep(DeepPath - 1), Deep(DeepPath), Deep(DeepPath) \o <<"?", "q", "#", "x">> }
ScoreContents ==
    { [simTitle |-> t, simSnip |-> sn, official |-> o, simOther |-> x] :
        t \in {0, 1, 100}, sn \in {0, 30, 100}, o \in BOOLEAN, x \in {0, 30, 46} }

\* a name, a host whose label is the name, a social host, and what the two
\* candidates share: title, snippet, path, query and fragment
ScoreInputs ==
    { [name |-> n, exact |-> <<"https", "://">> \o n \o sf \o tl,
       social |-> <<"https", "://">> \o h \o tl, content |-> c] :
        n \in ScoreNames, sf \in ScoreSuffixes, h \in ScoreSocial,
        tl \in ScoreTails, c \in ScoreContents }

\* a call of resolve on an empty cache: the provider environment, whether
\* SEARCH_EXTRA_QUERY is set, and min_score
ResolveInputs ==
    { [env |-> e, extra |-> x, minScore |-> m] :
        e \in ResolverEnvs, x \in BOOLEAN,
        m \in {MIN_RESOLVER_SCORE, MIN_RESOLVER_SCORE - 2} }

\* status codes on both sides of every test of _check_url_live
ProbeCodes == {199, 200, 302, 399, 400, 401, 403, 404, 405, 500, 503}

\* a URL and what the HEAD probe and the GET probe of it meet: a response
\* with its final status and final URL, or a requests.RequestException
LiveInputs ==
    { [url |-> UHttp, env |-> [head |-> h, get |-> g, tie |-> "none"]] :
        h \in { Probe("resp", c, URedirect, HalfSec) : c \in ProbeCodes }
              \cup { Probe("transport", 0, <<>>, HalfSec) },
        g \in { Probe("resp", c, UGood, HalfSec) : c \in ProbeCodes }
              \cup { Probe("transport", 0, <<>>, HalfSec) } }

\* what the HTTP requests of one provider call meet, attempt by attempt
SearchInputs ==
    ProviderEnvs(OkScripts, FailScripts \cup ShapeScripts, ResolverLists, {Sec(1)})

\* a call of resolve on an empty cache under the alarm of the search stage
ResolveAlarmInputs ==
    { [env |-> e, extra |-> x, minScore |-> MIN_RESOLVER_SCORE] :
        e \in RunResolveEnvs, x \in BOOLEAN }

PureArgs ==
    { Arg("normalize", url) : url \in UrlInputs }
    \cup { Arg("score", x) : x \in ScoreInputs }
    \cup { Arg("resolve", x) : x \in ResolveInputs }
    \cup { Arg("check_url_live", x) : x \in LiveInputs }
    \cup { Arg("search", x) : x \in SearchInputs }
    \cup { Arg("resolve_alarm", x) : x \in ResolveAlarmInputs }

InitPure ==
    /\ cfg \in { [DefaultCfg EXCEPT !.allowHttp = a] : a \in BOOLEAN }
    /\ disk = EmptyFile
    /\ cache = LoadCache(disk)
    /\ calls = <<>>
    /\ pc = "pure"
    /\ pulled = 0
    /\ cur = NoCur
    /\ rows = <<>>
    /\ preview_rows = <<>>
    /\ appended = <<>>
    /\ included = <<>>
    /\ counts = ZeroCounts
    /\ last \in PureArgs
    /\ sigalrm = NoSignal

PureFrame(fn) ==
    /\ pc = "pure"
    /\ last.stage = "arg"
    /\ last.fn = fn
    /\ UNCHANGED <<cfg, cache, disk, calls, pc, pulled, cur, rows, preview_rows,
                   appended, included, counts, sigalrm>>

\* _normalize_url(url), and _normalize_url of what it returned
NormalizeApplied(url, out, allowHttp) ==
    [stage |-> "normalize", in |-> url, out |-> out,
     again |-> IF out \in {None, Raised} THEN out ELSE NormalizeUrl(out, allowHttp)]

NormalizeCall ==
    /\ PureFrame("normalize")
    /\ last' = NormalizeApplied(last.in, NormalizeUrl(last.in, cfg.allowHttp),
                                cfg.allowHttp)

\* score_candidate for the two candidates of the argument
ScoreCall ==
    /\ PureFrame("score")
    /\ last' = [stage |-> "score", in |-> last.in,
                out |-> [exact |-> ScoreFor(last.in.name, last.in.content,
                                            last.in.exact),
                         social |-> ScoreFor(last.in.name, last.in.content,
                                             last.in.social)]]

\* resolver.resolve(NameA, min_score) with nothing cached
ResolveCall ==
    /\ PureFrame("resolve")
    /\ last' = [stage |-> "resolve", in |-> last.in,
                out |-> Resolve(NameA, NoCache, EmptyFile, last.in.env,
                                last.in.extra, last.in.minScore, NoAlarm)]

\* _check_url_live(url, timeout) outside any deadline
LiveCall ==
    /\ PureFrame("check_url_live")
    /\ last' = [stage |-> "check_url_live", in |-> last.in,
                out |-> CheckUrlLive(last.in.url, last.in.env, NoAlarm)]

\* one provider call self._search(query)
SearchCall ==
    /\ PureFrame("search")
    /\ last' = [stage |-> "search", in |-> last.in, out |-> Search(last.in)]

\* resolver.resolve(NameA, min_score) with nothing cached, while the alarm
\* of the search stage is armed
ResolveAlarmCall ==
    /\ PureFrame("resolve_alarm")
    /\ last' = [stage |-> "resolve_alarm", in |-> last.in,
                out |-> Resolve(NameA, NoCache, EmptyFile, last.in.env,
                                last.in.extra, last.in.minScore,
                                ArmedTicks(SearchBudget))]

NextPure ==
    \/ NormalizeCall
    \/ ScoreCall
    \/ ResolveCall
    \/ LiveCall
    \/ SearchCall
    \/ ResolveAlarmCall

SpecPure == InitPure /\ [][NextPure]_vars

(***************************************************************************)
(* Properties.  Under SpecResolve they read the log calls; under Spec and  *)
(* SpecSink they read the records of the run and the history kept in cur   *)
(* and last.                                                               *)
(***************************************************************************)
CallIds == 1..Len(calls)

\* the run holds a Skipped / Info record with this note for entity ent
SkippedFor(ent, text) ==
    \E i \in 1..Len(preview_rows) :
        preview_rows[i].ent = ent /\ preview_rows[i].note[1] = text

IncludedRows(ent) == {i \in 1..Len(included) : included[i].ent = ent}
PreviewRows(ent) == {i \in 1..Len(preview_rows) : preview_rows[i].ent = ent}

\* the loop is between two iterations, or over
AtBoundary == pc \in {"loop", "done", "aborted"}
(***************************************************************************)
(* Resolver cache (SpecResolve)                                            *)
(***************************************************************************)
\* C1: once resolve(name) has run to completion for a non-empty name, every
\* later resolve of the same string returns the identical result (the same URL,
\* or none both times) and issues zero provider queries.
C1_RepeatIsCached ==
    \A i \in CallIds, j \in CallIds :
        (i < j /\ Truthy(calls[i].name) /\ calls[i].status = "ret"
               /\ calls[j].name = calls[i].name)
        => /\ calls[j].status = "ret"
           /\ calls[j].value = calls[i].value
           /\ calls[j].queries = 0

\* a name resolved to a URL by querying the provider, then resolved again
C1_Witness ==
    \E i \in CallIds, j \in CallIds :
        /\ i < j
        /\ calls[j].name = calls[i].name
        /\ calls[i].status = "ret" /\ ~calls[i].hit /\ calls[i].queries > 0
        /\ calls[i].value \notin {None, EMPTY}
        /\ calls[j].hit /\ calls[j].value = calls[i].value

\* C2: when resolve(name) completes with none for a non-empty name that had no
\* entry, the cache holds EMPTY for the name when resolve returns; EMPTY differs
\* from an absent key (an absent key makes resolve query the provider), and a
\* resolve that finds EMPTY returns none without querying the provider.
C2_NegativeEntry ==
    \A i \in CallIds :
        Truthy(calls[i].name) =>
            /\ (calls[i].status = "ret" /\ calls[i].value = None
                    /\ calls[i].before = None)
               => (calls[i].stored = EMPTY /\ calls[i].stored # None)
            /\ calls[i].before = None => calls[i].queries > 0
            /\ calls[i].before = EMPTY
               => /\ calls[i].status = "ret"
                  /\ calls[i].value = None
                  /\ calls[i].queries = 0
                  /\ calls[i].stored = EMPTY

\* a miss that ended with none, followed by a resolve of the same name
C2_Witness ==
    \E i \in CallIds, j \in CallIds :
        /\ i < j
        /\ calls[j].name = calls[i].name
        /\ calls[i].before = None /\ calls[i].queries > 0
        /\ calls[i].status = "ret" /\ calls[i].value = None
        /\ calls[i].stored = EMPTY
        /\ calls[j].before = EMPTY /\ calls[j].queries = 0

\* C8: whatever the provider does (transport failure on every attempt, non-2xx
\* status, a 2xx body that is no JSON, a 2xx JSON of another shape), _search
\* raises nothing and resolve returns a URL or none without raising.
C8_NeverRaises ==
    \A i \in CallIds : calls[i].status = "ret"

(***************************************************************************)
(* Deadlines (Spec)                                                        *)
(***************************************************************************)
\* C3: in hard mode, when the resolution deadline fires while resolve is in
\* flight, the entity is recorded as skipped with the timed-out-during-search
\* reason, never as "No site found via search", and the iteration does not go
\* on with the operation's result.
C3_DeadlineSkips ==
    (HardMode(cfg) /\ "resolve" \in cur.overran) =>
        /\ SkippedFor(cur.ent, "Timed out during search")
        /\ ~SkippedFor(cur.ent, "No site found via search")
        /\ cur.invoked = <<"resolve">>
        /\ pc # "live"

\* C4 as written: an operation wrapped with a budget of `seconds` that
\* completes within `seconds` when left alone hands its own result to the
\* caller, with no deadline-exceeded outcome.
C4_WithinRequested ==
    (last.stage # "none" /\ last.hard /\ last.natStatus = "ret"
        /\ last.natural <= last.requested)
    => (last.status = "ret" /\ last.same /\ ~last.fired)

\* C4, amended: the deadline armed is max(1, floor(seconds)) whole seconds, and
\* an operation that completes in less than the armed deadline hands its own
\* result to the caller, with no deadline-exceeded outcome.
C4_WithinArmed ==
    (last.stage # "none" /\ last.hard) =>
        /\ last.armed = Sec(IF last.requested \div Sec(1) < 1 THEN 1
                            ELSE last.requested \div Sec(1))
        /\ (last.natStatus = "ret" /\ last.natural < last.armed)
           => (last.status = "ret" /\ last.same /\ ~last.fired)

\* a resolution asked to run within 9.75 s, armed with 9 s, that returned in time
C4_Witness ==
    /\ last.stage = "resolve" /\ last.hard
    /\ last.requested = SearchBudget
    /\ last.armed < last.requested
    /\ last.natStatus = "ret" /\ last.natural > 0 /\ last.natural < last.armed
    /\ last.status = "ret" /\ last.same
    /\ pc = "live"

\* C5: in soft mode (SIGALRM wrapper disabled by configuration, or no SIGALRM
\* on the host), a resolution that overruns its budget returns its result
\* uninterrupted and the entity is then recorded as skipped for timeout.
C5_SoftOverrunSkips ==
    (last.stage = "resolve" /\ ~last.hard /\ last.natStatus = "ret"
        /\ last.natural > last.requested)
    => /\ last.status = "ret" /\ last.same /\ ~last.fired
       /\ SkippedFor(last.ent, "Timed out during search")
       /\ pc # "live"
(***************************************************************************)
(* Dispositions (Spec)                                                     *)
(***************************************************************************)
\* C6 as written: every entity with a non-empty name gets exactly one record,
\* an Included row or a Skipped record, never both and never two.
C6_OneDisposition ==
    /\ \A e \in 1..pulled :
           Cardinality(IncludedRows(e)) + Cardinality(PreviewRows(e)) <= 1
    /\ AtBoundary => Len(included) + Len(preview_rows) = counts.total

DeadNotes(e) == {i \in PreviewRows(e) : preview_rows[i].note[1] = "DEAD link"}

\* the records that dispose of entity e: with DROP_DEAD_LINKS off the
\* "DEAD link" record is a note, and the iteration goes on to the classifier
Dispositions(e) ==
    Cardinality(IncludedRows(e))
    + Cardinality(PreviewRows(e) \ (IF cfg.dropDead THEN {} ELSE DeadNotes(e)))

AllDeadNotes == {i \in 1..Len(preview_rows) : preview_rows[i].note[1] = "DEAD link"}

\* the run is between two iterations, or has ended; an uncaught exception
\* (pc = "crashed") ends the iteration of the entity it was handling too
IterationOver == pc \in {"loop", "done", "aborted", "crashed"}

\* C6, the "DEAD link" note of DROP_DEAD_LINKS off set aside: every entity
\* with a non-empty name whose iteration is over has exactly one disposition
\* (an Included row or a Skipped record), never two; with DROP_DEAD_LINKS on
\* that is its only record, with it off an entity whose link is dead has one
\* "DEAD link" record besides its disposition.
C6_ExactlyOneDisposition ==
    /\ \A e \in 1..pulled :
           /\ Dispositions(e) <= 1
           /\ Cardinality(DeadNotes(e)) <= 1
           /\ cfg.dropDead
              => Cardinality(IncludedRows(e)) + Cardinality(PreviewRows(e)) <= 1
    /\ IterationOver =>
           Len(included) + Len(preview_rows)
             = counts.total + (IF cfg.dropDead THEN 0 ELSE Cardinality(AllDeadNotes))

\* the stages an iteration has run when it writes a Skipped record
StagesBefore(text) ==
    CASE text \in {"Timed out during live check", "DEAD link"} -> <<"resolve", "live">>
      [] text = "Filtered out by GPT" -> <<"resolve", "live", "classify">>
      [] OTHER -> <<"resolve">>

\* C7: with DROP_DEAD_LINKS and the classifier on, an entity is Included only
\* after all three stages ran in order, none of them timed out and the
\* classifier returned include = true; a stage that times out ends the entity
\* as Skipped with that stage's reason, and no later stage is invoked.
C7_FirstFailingStage ==
    (cfg.dropDead /\ cfg.gptOn) =>
        /\ IncludedRows(cur.ent) # {} =>
               /\ cur.invoked = <<"resolve", "live", "classify">>
               /\ cur.overran = {}
               /\ cur.cls.kind = "called" /\ cur.cls.decision.include = "true"
               /\ PreviewRows(cur.ent) = {}
        /\ "resolve" \in cur.overran =>
               /\ SkippedFor(cur.ent, "Timed out during search")
               /\ cur.invoked = <<"resolve">>
        /\ "live" \in cur.overran =>
               /\ SkippedFor(cur.ent, "Timed out during live check")
               /\ cur.invoked = <<"resolve", "live">>
        /\ \A i \in PreviewRows(cur.ent) :
               cur.invoked = StagesBefore(preview_rows[i].note[1])

(***************************************************************************)
(* Classifier (Spec)                                                       *)
(***************************************************************************)
\* the API call raised, the content is no JSON object, or include is no boolean
CallFailed(env) == env.kind # "json" \/ env.include \notin {"true", "false"}

\* industry_short is missing, no string, or blank
TagMissing(env) ==
    env.kind = "json"
    /\ (env.industry = None \/ env.industry = NonStr \/ Strip(env.industry) = <<>>)

\* C9 as written: decide always returns a decision; a failed call or a
\* non-boolean include yields include = false; a missing or blank tag yields
\* "Unknown"; and in each of these cases the entity is recorded as skipped
\* ("Filtered out by GPT").
C9_FailureSkips ==
    cur.cls.kind = "called" =>
        /\ CallFailed(cur.cls.env) => cur.cls.decision.include = "false"
        /\ (cur.cls.env.kind # "json" \/ TagMissing(cur.cls.env))
           => cur.cls.decision.industry_short = Unknown
        /\ (CallFailed(cur.cls.env) \/ TagMissing(cur.cls.env))
           => SkippedFor(cur.ent, "Filtered out by GPT")

\* C9, amended: decide always returns a decision; a failed call or a
\* non-boolean include yields include = false; a missing or blank tag yields
\* "Unknown"; the entity is recorded as skipped ("Filtered out by GPT") exactly
\* when the decision's include is false, so a response with include = true and
\* a missing or blank tag is Included with the industry "Unknown".
C9_SkipFollowsInclude ==
    cur.cls.kind = "called" =>
        /\ CallFailed(cur.cls.env) => cur.cls.decision.include = "false"
        /\ (cur.cls.env.kind # "json" \/ TagMissing(cur.cls.env))
           => cur.cls.decision.industry_short = Unknown
        /\ cur.cls.decision.include = "false"
           <=> SkippedFor(cur.ent, "Filtered out by GPT")
        /\ cur.cls.decision.include = "true" <=> IncludedRows(cur.ent) # {}
        /\ \A i \in IncludedRows(cur.ent) :
               TagMissing(cur.cls.env) => included[i].industry = Unknown

\* a response with include = true and no usable tag, Included as "Unknown"
C9_Witness ==
    /\ cur.cls.kind = "called"
    /\ cur.cls.env.kind = "json" /\ cur.cls.env.include = "true"
    /\ TagMissing(cur.cls.env)
    /\ \E i \in IncludedRows(cur.ent) : included[i].industry = Unknown

(***************************************************************************)
(* Sink batching (SpecSink)                                                *)
(***************************************************************************)
RECURSIVE Flatten(_)
Flatten(batches) ==
    IF batches = <<>> THEN <<>> ELSE Head(batches) \o Flatten(Tail(batches))

\* C10: with the sink enabled and no append failing, the batches handed to
\* append_rows, concatenated, are the Included rows in processing order (with
\* the pending batch until the run ends); a flush happens as soon as the
\* pending batch reaches 50 rows, so the batch kept between iterations stays
\* below 50, every batch but the one of the end of the run holds exactly 50
\* rows, and the end of the run appends the non-empty remainder once.
C10_BatchesAreIncluded ==
    /\ Len(rows) < FlushThreshold
    /\ \A k \in 1..Len(appended) :
           /\ appended[k] # <<>>
           /\ Len(appended[k]) <= FlushThreshold
           /\ (k < Len(appended) \/ pc # "done")
              => Len(appended[k]) = FlushThreshold
    /\ Flatten(appended) \o (IF pc = "done" THEN <<>> ELSE rows) = included
    /\ (pc = "done" /\ rows # <<>>)
       => (appended # <<>> /\ appended[Len(appended)] = rows)

\* a finished run with a full batch, a remainder and a skipped entity
C10_Witness ==
    /\ pc = "done"
    /\ Len(appended) = 2
    /\ Len(appended[1]) = FlushThreshold
    /\ Len(appended[2]) < FlushThreshold
    /\ preview_rows # <<>>
    /\ Flatten(appended) = included
(***************************************************************************)
(* Run to completion (Spec)                                                *)
(***************************************************************************)
\* C11: no per-entity condition aborts the batch: whatever the outcome of an
\* entity's stages, run() is never ended by an exception of that entity, and
\* once the loop has left an entity (it is back at the top of the loop or at
\* the final summary) that entity has its disposition.
C11_NoEntityAborts ==
    /\ pc # "crashed"
    /\ (pc \in {"loop", "done"} /\ cur.ent > 0 /\ cur.ent = pulled)
       => Dispositions(cur.ent) = 1
(***************************************************************************)
(* URL normalization (SpecPure)                                            *)
(***************************************************************************)
\* the host of a netloc: what is left of it without userinfo and port
HostOf(netloc) == SelectSeq(netloc, LAMBDA t : t \notin {"user@", ":80", ":"})

HasFragment(url) == \E i \in 1..Len(url) : url[i] = "#"

\* the scheme the (stripped) input spells out, "" when it spells none
InputScheme(url) == UrlParse(Strip(url)).scheme

RejectedInput(url) ==
    Truthy(url) /\ Strip(url) # <<>> /\ Lower(Strip(url))[1] \in RejectedPrefixes

\* C12: for every input, _normalize_url either returns none or returns a URL
\* with scheme http or https, a non-empty host and no fragment; inputs that
\* start with mailto:, tel:, javascript:, data: or about: in any letter case
\* are rejected; an accepted input without a scheme gets https; an http input
\* becomes https unless ALLOW_HTTP is set; normalizing an accepted result again
\* returns it unchanged.
C12_Normalized ==
    last.stage = "normalize" =>
        /\ last.out # Raised
        /\ last.out # None =>
               /\ UrlParse(last.out).scheme \in {<<"http">>, <<"https">>}
               /\ HostOf(UrlParse(last.out).netloc) # <<>>
               /\ ~HasFragment(last.out)
               /\ last.again = last.out
               /\ InputScheme(last.in) = <<>>
                  => UrlParse(last.out).scheme = <<"https">>
               /\ (InputScheme(last.in) = <<"http">> /\ ~cfg.allowHttp)
                  => UrlParse(last.out).scheme = <<"https">>
        /\ RejectedInput(last.in) => last.out = None
(***************************************************************************)
(* Candidate scores (SpecPure)                                             *)
(***************************************************************************)
\* C13: a candidate whose registrable domain's leftmost label equals the
\* normalized name, on a host that is not in SOCIAL_HOSTS, scores strictly
\* higher than the candidate with the same title, snippet, path, query and
\* fragment on a host in SOCIAL_HOSTS.
C13_ExactBeatsSocial ==
    (last.stage = "score"
        /\ HostCore(last.in.exact) = last.in.name
        /\ ExtractRegistrableHost(last.in.exact) \notin SOCIAL_HOSTS
        /\ ExtractRegistrableHost(last.in.social) \in SOCIAL_HOSTS)
    => FloatLess(last.out.social, last.out.exact)
(***************************************************************************)
(* Aborted resolution (Spec)                                               *)
(***************************************************************************)
\* C14: in hard-deadline mode, a resolution that ends with the deadline's
\* _Timeout reaching the orchestrator leaves _CACHE and the cache file exactly
\* as they were before the call, with no entry for the name.
C14_AbortRetainsNothing ==
    [][(pc = "resolve" /\ pc' # "resolve" /\ last'.hard
            /\ last'.status = "timeout")
       => (cache' = cache /\ disk' = disk /\ cache'[cur.name] = None)]_vars
(***************************************************************************)
(* The SIGALRM state around _run_with_alarm (Spec)                         *)
(***************************************************************************)
\* C15: at most one deadline is armed at any time: _run_with_alarm is never
\* entered while an alarm is pending, and whenever it has left (by return, by
\* _Timeout, by the operation's exception, or by a deadline that fires after
\* the operation returned and before the alarm is cancelled) no alarm is
\* pending and the handler that was installed before the call is installed
\* again.
C15_AlarmStateRestored ==
    /\ ~sigalrm.nested
    /\ ~sigalrm.pending
    /\ sigalrm.handler = "SIG_DFL"
(***************************************************************************)
(* Budget handed to the live check (Spec)                                  *)
(***************************************************************************)
\* C16 as stated: the deadline given to the live check is at most the budget
\* remaining for the entity and at most the liveness timeout, and the
\* deadlines given to the search and to the live check together do not
\* exceed the per-entity total.
C16_WithinRemaining ==
    [][(pc = "live" /\ pc' # "live")
       => /\ last'.requested <= Remaining(cur.elapsed)
          /\ last'.requested <= Sec(TIMEOUT_SECS)
          /\ SearchBudget + last'.requested <= Budget]_vars

\* C16: the deadline given to the live check is at most the larger of one
\* second and the budget remaining for the entity, and at most the larger of
\* one second and the liveness timeout; the alarm armed for it is no longer;
\* when at least one second remains, the time already spent on the entity
\* plus that deadline does not exceed the per-entity total.
C16_WithinRemainingOrFloor ==
    [][(pc = "live" /\ pc' # "live")
       => /\ last'.requested <= Max(Sec(1), Remaining(cur.elapsed))
          /\ last'.requested <= Max(Sec(1), Sec(TIMEOUT_SECS))
          /\ last'.hard => last'.armed <= last'.requested
          /\ Remaining(cur.elapsed) >= Sec(1)
                => cur.elapsed + last'.requested <= Budget]_vars

\* the live check has run on the one-second floor although the search had
\* used up the whole budget, and on another entity with what remained
C16_Witness ==
    /\ last.stage = "live"
    /\ last.requested = Sec(1)
    /\ cur.elapsed > Budget + Sec(1)
(***************************************************************************)
(* Budget left when the classifier is called (Spec)                        *)
(***************************************************************************)
\* C17: in hard and in soft mode, the classifier is invoked for an entity only
\* if the time the entity has used at that point does not exceed the
\* per-entity total budget.
C17_ClassifierWithinBudget ==
    (\E i \in 1..Len(cur.invoked) : cur.invoked[i] = "classify")
        => cur.elapsed <= Budget
(***************************************************************************)
(* Selection of the website (SpecPure)                                     *)
(***************************************************************************)
\* the results the issued queries delivered, in the order they are seen
Delivered(env, extra) ==
    IF extra THEN Search(env.q[1]).results \o Search(env.q[2]).results
    ELSE Search(env.q[1]).results

LinkOf(r) == IF r.link = None THEN <<>> ELSE Strip(r.link)
Usable(rs) == { i \in 1..Len(rs) : LinkOf(rs[i]) # <<>> }
ScoreAt(rs, i) == ScoreCandidate(rs[i], LinkOf(rs[i]))

\* the first result among those of maximal score
Winner(rs) ==
    CHOOSE i \in Usable(rs) :
        \A j \in Usable(rs) :
            \/ FloatLess(ScoreAt(rs, j), ScoreAt(rs, i))
            \/ ScoreAt(rs, i) = ScoreAt(rs, j) /\ i <= j

Expected(rs, minScore) ==
    IF Usable(rs) = {} THEN None
    ELSE IF FloatGeq(ScoreAt(rs, Winner(rs)), FloatOf(minScore))
    THEN LinkOf(rs[Winner(rs)]) ELSE None

\* C18: on a cache miss, a call of resolve that returns has issued one query
\* (two with the extra query) and returns the link of the maximum-scoring
\* result over all results of those queries, the first seen among equal
\* scores, results with an empty link ignored, when that maximum is at least
\* min_score; it returns None when the maximum is lower or no result has a
\* link.
C18_ReturnsBestCandidate ==
    (last.stage = "resolve" /\ last.out.status = "ret")
    => /\ last.out.queries = NumQueries(last.in.extra)
       /\ last.out.value = Expected(Delivered(last.in.env, last.in.extra),
                                    last.in.minScore)

\* two queries, the best score shared by a result of the first query and
\* one of the second: the first seen is returned
C18_Witness ==
    /\ last.stage = "resolve"
    /\ last.out.status = "ret"
    /\ last.in.extra
    /\ Delivered(last.in.env, TRUE) = <<RTwin, RGood, RTwin>>
    /\ last.out.value = UTwin
(***************************************************************************)
(* The liveness check (SpecPure)                                           *)
(***************************************************************************)
Responded(p) == p.kind = "resp"
In2xx3xx(p) == Responded(p) /\ p.code \in 200..399
WantsBody(p) == Responded(p) /\ p.code \in {400, 401, 403, 405, 500}

\* C19: _check_url_live returns (it does not raise); it reports live exactly
\* when the HEAD probe's final status is in 200..399, or that status is one of
\* 400, 401, 403, 405, 500 and the GET probe's final status is in 200..399;
\* the GET probe is issued only after a HEAD status in that set; when live,
\* the URL and status returned are those of the probe that succeeded; a
\* transport failure on a probe that was issued yields (False, url, None).
C19_LiveVerdict ==
    last.stage = "check_url_live" =>
    /\ last.out.status = "ret"
    /\ last.out.is_live <=>
         \/ In2xx3xx(last.in.env.head)
         \/ WantsBody(last.in.env.head) /\ In2xx3xx(last.in.env.get)
    /\ last.out.probes = 2 <=> WantsBody(last.in.env.head)
    /\ (last.out.is_live /\ last.out.probes = 1)
          => /\ last.out.final_url = last.in.env.head.url
             /\ last.out.code = last.in.env.head.code
    /\ (last.out.is_live /\ last.out.probes = 2)
          => /\ last.out.final_url = last.in.env.get.url
             /\ last.out.code = last.in.env.get.code
    /\ (\/ ~Responded(last.in.env.head)
        \/ last.out.probes = 2 /\ ~Responded(last.in.env.get))
          => /\ ~last.out.is_live
             /\ last.out.final_url = last.in.url
             /\ last.out.code = 0

\* the HEAD probe was refused with 403 and the GET probe succeeded
C19_Witness ==
    /\ last.stage = "check_url_live"
    /\ last.in.env.head.code = 403
    /\ last.out.probes = 2
    /\ last.out.is_live
    /\ last.out.final_url = UGood
    /\ last.out.code = 302
(***************************************************************************)
(* Retries of a provider call (SpecPure)                                   *)
(***************************************************************************)
\* C20: within one provider call a further HTTP request is made only after a
\* transport failure; a response with a non-2xx status ends the call with an
\* empty result after that single request; the call makes at most 3 requests.
C20_RetryOnlyOnTransport ==
    last.stage = "search" =>
    /\ last.out.requests <= 3
    /\ \A i \in 1..(last.out.requests - 1) : last.in.script[i] = "transport"
    /\ last.in.script[1] = "status"
          => last.out.requests = 1 /\ last.out.results = <<>>
(***************************************************************************)
(* Negative entries after failed queries (SpecPure)                        *)
(***************************************************************************)
ResolveStages == {"resolve", "resolve_alarm"}

\* the requests of the provider call ended in a failure: a transport failure
\* or a non-2xx status on the last attempt, or a body that is no JSON
QueryFailed(p) == p.script[Len(p.script)] \in {"transport", "status", "badjson"}

IssuedQueries(extra) == 1..(IF extra THEN 2 ELSE 1)

\* C21 as stated: the EMPTY entry for a name is written only after every
\* provider query issued for it completed with a successful response and none
\* was cut short by the deadline.
C21_NegativeOnlyAfterSuccess ==
    (last.stage \in ResolveStages /\ last.out.cache[NameA] = EMPTY)
    => /\ \A k \in IssuedQueries(last.in.extra) : ~QueryFailed(last.in.env.q[k])
       /\ ~last.out.fired

\* C21: a call of resolve on a cache miss that returns has written an entry
\* for the name, EMPTY when it returns None, whether or not its queries
\* failed or were cut short by a deadline that the provider adapter
\* swallowed; in particular, outside any deadline, a call all of whose
\* queries failed returns None and leaves EMPTY.  The name is left without an
\* entry only by a call that raised or was ended by the deadline.
C21_NegativeAfterAnyReturn ==
    last.stage \in ResolveStages =>
    /\ last.out.status = "ret"
          => /\ last.out.cache[NameA] # None
             /\ last.out.value = None <=> last.out.cache[NameA] = EMPTY
    /\ (last.stage = "resolve"
          /\ \A k \in IssuedQueries(last.in.extra) : QueryFailed(last.in.env.q[k]))
          => /\ last.out.status = "ret"
             /\ last.out.value = None
             /\ last.out.cache[NameA] = EMPTY
    /\ last.out.cache[NameA] = None => last.out.status \in {"error", "timeout"}
    /\ last.out.status = "error" => last.out.cache[NameA] = None

\* every request of the only query met a transport failure, and the call
\* returned None and left the EMPTY entry
C21_Witness ==
    /\ last.stage = "resolve"
    /\ ~last.in.extra
    /\ last.in.env.q[1].script = <<"transport", "transport", "transport">>
    /\ last.out.status = "ret"
    /\ last.out.requests = 3
    /\ last.out.cache[NameA] = EMPTY
(***************************************************************************)
(* URLs of Included rows (Spec)                                            *)
(***************************************************************************)
\* C22: every URL stored in an Included row contains none of the scraper's
\* blacklist substrings and, when ALLOW_HTTP is off, has the scheme https,
\* also when the row stores the final URL of a redirected liveness probe.
C22_IncludedUrlsChecked ==
    \A i \in 1..Len(included) :
        /\ ~ContainsAny(included[i].link, cfg.blacklist)
        /\ ~cfg.allowHttp => included[i].link[1] = "https"

====
